---- MODULE Spec2Model ----
(***************************************************************************)
(* A model of ocl-core's error type (src/error.rs): the Error value with   *)
(* its kind and its owned cause, the constructors and From lifts, chain,   *)
(* chain_err, prepend, eval_errcode and the Display / description          *)
(* formatting.                                                             *)
(*                                                                         *)
(* Errors live in a heap of nodes; `cause` is the id of the boxed parent   *)
(* (0 for None).  `owned` is the set of Errors the caller holds by value.  *)
(* Rust strings are TLA+ strings, concatenated with \o.                    *)
(***************************************************************************)
EXTENDS Integers, Sequences, FiniteSets, TLC

VARIABLES heap, owned, last, pending

vars == <<heap, owned, last, pending>>

(* ----------------------------- bounds --------------------------------- *)

\* Number of Error nodes that can be alive at once.
MaxNodes == 3
\* Longest cause chain drawn as the argument of a formatting call.
MaxDepth == 3
\* Longest text of a String error that prepend may produce.
MaxTextLen == 5

(* ----------------------- external collaborators ----------------------- *)

\* The named statuses (::Status, declared outside error.rs): name and integer.
StatusTable ==
    { [name |-> "CL_SUCCESS", code |-> 0],
      [name |-> "CL_DEVICE_NOT_FOUND", code |-> -1],
      [name |-> "CL_INVALID_VALUE", code |-> -30] }

CL_SUCCESS == CHOOSE s \in StatusTable : s.name = "CL_SUCCESS"

None == [tag |-> "None"]
Some(v) == [tag |-> "Some", value |-> v]

\* num::FromPrimitive for Status: the named status of an integer, if any.
from_i32(errcode) ==
    IF \E s \in StatusTable : s.code = errcode
    THEN Some(CHOOSE s \in StatusTable : s.code = errcode)
    ELSE None

Digit(d) ==
    CASE d = 0 -> "0" [] d = 1 -> "1" [] d = 2 -> "2" [] d = 3 -> "3"
      [] d = 4 -> "4" [] d = 5 -> "5" [] d = 6 -> "6" [] d = 7 -> "7"
      [] d = 8 -> "8" [] d = 9 -> "9"

RECURSIVE NatToString(_)
NatToString(n) ==
    IF n < 10 THEN Digit(n) ELSE NatToString(n \div 10) \o Digit(n % 10)

\* `{}` of an i32.
IntToString(n) == IF n < 0 THEN "-" \o NatToString(0 - n) ELSE NatToString(n)

\* `{}` of an OpenclVersion <<major, minor>>.
VersionToString(v) == NatToString(v[1]) \o "." \o NatToString(v[2])

(* ------------------------------ inputs -------------------------------- *)

Texts == {"boom", "context"}
Prefixes == {">"}
Values == {42, 7}
Codes == {0, -1, -30, 1, -20}
FnNames == {"clGetPlatformIDs", "clEnqueueNDRangeKernel"}
FnInfos == {"", "main_kernel"}

\* Foreign failure values; each carries the text of its own description().
NulErrors == {[ty |-> "NulError", description |-> "nul byte found in data"]}
IoErrors == {[ty |-> "io::Error", description |-> "unexpected end of file"]}
FromUtf8Errors == {[ty |-> "FromUtf8Error", description |-> "invalid utf-8"]}
IntoStringErrors ==
    {[ty |-> "IntoStringError", description |-> "C string contained non-utf8 bytes"]}
EmptyInfoResults == {[ty |-> "EmptyInfoResult", description |-> "No results"]}
BoxedErrors == {[ty |-> "Box<StdError>", description |-> "other failure"]}

Unit == [ty |-> "()"]
Strings == {[ty |-> "String", text |-> t] : t \in Texts}
Strs == {[ty |-> "&str", text |-> t] : t \in Texts}

\* Every foreign value with a From impl into Error.
Foreign ==
    {Unit} \cup Strings \cup Strs \cup NulErrors \cup IoErrors
        \cup FromUtf8Errors \cup IntoStringErrors \cup EmptyInfoResults

(* --------------------------- the Error value -------------------------- *)

Free == [tag |-> "Free"]

\* The slots of heap h that hold an Error.
Live(h) == {i \in DOMAIN h : h[i] # Free}

Error(kind, cause) == [kind |-> kind, cause |-> cause]

Void == [tag |-> "Void"]
Conversion(desc) == [tag |-> "Conversion", desc |-> desc]
Status(status, status_string, fn_name, fn_info, desc) ==
    [tag |-> "Status", status |-> status, status_string |-> status_string,
     fn_name |-> fn_name, fn_info |-> fn_info, desc |-> desc]
String(desc) == [tag |-> "String", desc |-> desc]
Nul(err) == [tag |-> "Nul", err |-> err]
Io(err) == [tag |-> "Io", err |-> err]
FromUtf8Error(err) == [tag |-> "FromUtf8Error", err |-> err]
UnspecifiedDimensions == [tag |-> "UnspecifiedDimensions"]
IntoStringError(err) == [tag |-> "IntoStringError", err |-> err]
EmptyInfoResult(err) == [tag |-> "EmptyInfoResult", err |-> err]
VersionLow(detected, required) ==
    [tag |-> "VersionLow", detected |-> detected, required |-> required]
Other(err) == [tag |-> "Other", err |-> err]

Ok(v) == [tag |-> "Ok", value |-> v]
Err(e) == [tag |-> "Err", err |-> e]

SDK_DOCS_URL_PRE == "https://www.khronos.org/registry/cl/sdk/1.2/docs/man/xhtml/"
SDK_DOCS_URL_SUF == ".html#errors"

fmt_status_desc(status, fn_name, fn_info) ==
    LET fn_info_string ==
            IF fn_info # "" THEN "(\"" \o fn_info \o "\")" ELSE ""
    IN  "\n\n################################ OPENCL ERROR ############################### "
        \o "\n\nError executing function: " \o fn_name \o fn_info_string \o "  "
        \o "\n\nStatus error code: " \o status.name
        \o " (" \o IntToString(status.code) \o ")  "
        \o "\n\nPlease visit the following url for more information: \n\n"
        \o SDK_DOCS_URL_PRE \o fn_name \o SDK_DOCS_URL_SUF \o "  \n\n"
        \o "############################################################################# \n"

\* The result of a call that may panic: the returned value, or the abort.
Returned(v) == [panic |-> FALSE, value |-> v]
Panicked(msg) == [panic |-> TRUE, value |-> msg]

\* Variant: an unknown code is demoted to a String error instead of aborting.
gen_status_error_lenient(errcode, fn_name, fn_info) ==
    LET found == from_i32(errcode) IN
    IF found = None
    THEN Returned(Error(String("Invalid error code: '" \o IntToString(errcode) \o "'"), 0))
    ELSE LET status == found.value
             desc == fmt_status_desc(status, fn_name, fn_info)
             status_string == status.name
         IN  Returned(Error(Status(status, status_string, fn_name, fn_info, desc), 0))

gen_status_error(errcode, fn_name, fn_info) ==
    LET found == from_i32(errcode) IN
    IF found = None
    THEN Panicked("ocl_core::Error::err_status: Invalid error code: '"
                  \o IntToString(errcode) \o "'. Aborting.")
    ELSE LET status == found.value
             desc == fmt_status_desc(status, fn_name, fn_info)
             status_string == status.name
         IN  Returned(Error(Status(status, status_string, fn_name, fn_info, desc), 0))


(* --------------------- constructors and From lifts -------------------- *)

new(desc) == Error(String(desc), 0)
string(desc) == Error(String(desc), 0)
unspecified_dimensions == Error(UnspecifiedDimensions, 0)
version_low(detected, required) == Error(VersionLow(detected, required), 0)
err(desc) == Err(Error(String(desc), 0))
err_string(desc) == Err(Error(String(desc), 0))
err_conversion(desc) == Err(Error(Conversion(desc), 0))

From_unit(v) == Error(Void, 0)
From_EmptyInfoResult(v) == Error(EmptyInfoResult(v), 0)
From_String(v) == Error(String(v.text), 0)
From_str(v) == Error(String(v.text), 0)
\* Variant: the embedded-NUL failure is filed under the Io kind.
From_NulError_as_Io(v) == Error(Io(v), 0)

From_NulError(v) == Error(Nul(v), 0)
From_IoError(v) == Error(Io(v), 0)
From_FromUtf8Error(v) == Error(FromUtf8Error(v), 0)
From_IntoStringError(v) == Error(IntoStringError(v), 0)

\* An Error handed over by value, as the argument of a generic Into<Error>.
Moved(id) == [ty |-> "Error", id |-> id]

\* E: Into<Error>: the From impl selected by the argument's type; an Error
\* converts to itself.
Into(h, v) ==
    CASE v.ty = "Error" -> h[v.id]
      [] v.ty = "()" -> From_unit(v)
      [] v.ty = "EmptyInfoResult" -> From_EmptyInfoResult(v)
      [] v.ty = "String" -> From_String(v)
      [] v.ty = "&str" -> From_str(v)
      [] v.ty = "NulError" -> From_NulError(v)
      [] v.ty = "io::Error" -> From_IoError(v)
      [] v.ty = "FromUtf8Error" -> From_FromUtf8Error(v)
      [] v.ty = "IntoStringError" -> From_IntoStringError(v)

(* ------------------------------ methods ------------------------------- *)

\* Variant: the success check is missing.
eval_errcode_always_resolves(errcode, result, fn_name, fn_info) ==
    LET e == gen_status_error(errcode, fn_name, fn_info)
    IN  [panic |-> e.panic,
         value |-> IF e.panic THEN e.value ELSE Err(e.value),
         resolved |-> 1]

eval_errcode(errcode, result, fn_name, fn_info) ==
    IF CL_SUCCESS.code = errcode
    THEN [panic |-> FALSE, value |-> Ok(result), resolved |-> 0]
    ELSE LET e == gen_status_error(errcode, fn_name, fn_info)
         IN  [panic |-> e.panic,
              value |-> IF e.panic THEN e.value ELSE Err(e.value),
              resolved |-> 1]

\* Variant: txt is put behind the text.
prepend_appends(self, txt) ==
    IF self.kind.tag = "String"
    THEN Returned(Error(String(self.kind.desc \o txt), self.cause))
    ELSE Panicked("Cannot prepend to a non-String error variant.")

\* prepend on a node: the node afterwards, or the panic.
prepend(self, txt) ==
    IF self.kind.tag = "String"
    THEN Returned(Error(String(txt \o self.kind.desc), self.cause))
    ELSE Panicked("Cannot prepend to a non-String error variant.")

\* Variant: the new Error does not keep `self` as its cause.
chain_loses_cause(self, head) ==
    IF head.cause # 0
    THEN Panicked("Cannot chain an error that already has a cause.")
    ELSE Returned(Error(head.kind, 0))

\* Variant: the assertion on the head's cause is missing.
chain_unchecked(self, head) == Returned(Error(head.kind, self))

\* chain: `self` is the id of the Error moved into the Box, `head` is `err`
\* after err.into().
chain(self, head) ==
    IF head.cause # 0
    THEN Panicked("Cannot chain an error that already has a cause.")
    ELSE Returned(Error(head.kind, self))

status(self) ==
    IF self.kind.tag = "Status" THEN Some(self.kind.status) ELSE None

kind(self) == self.kind

\* cause(): the id of the next Error of the chain, 0 for None.
cause(self) == self.cause

write_msg(self) ==
    LET k == self.kind IN
    CASE k.tag = "VersionLow" ->
            "OpenCL version too low to use this feature (detected: "
            \o VersionToString(k.detected) \o ", required: "
            \o VersionToString(k.required) \o ")."
      [] k.tag = "Void" -> "OpenCL Error"
      [] k.tag = "Conversion" -> k.desc
      [] k.tag = "Nul" -> k.err.description
      [] k.tag = "Io" -> k.err.description
      [] k.tag = "FromUtf8Error" -> k.err.description
      [] k.tag = "IntoStringError" -> k.err.description
      [] k.tag = "Status" -> k.desc
      [] k.tag = "String" -> k.desc
      [] k.tag = "UnspecifiedDimensions" ->
            "Cannot convert to a valid set of dimensions. Please specify some dimensions."
      [] k.tag = "EmptyInfoResult" -> k.err.description
      [] k.tag = "Other" -> k.err.description

\* _fmt: the recursion follows the Box; `fuel` only bounds the evaluation.
RECURSIVE fmt_rec(_, _, _)
fmt_rec(h, id, fuel) ==
    IF h[id].cause # 0 /\ fuel > 0
    THEN write_msg(h[id]) \o ": " \o fmt_rec(h, h[id].cause, fuel - 1)
    ELSE write_msg(h[id])

\* Variant: the cause is not followed.
_fmt_own_only(h, id) == write_msg(h[id])

_fmt(h, id) == fmt_rec(h, id, Cardinality(DOMAIN h))

\* Display and Debug.
fmt(h, id) == _fmt(h, id)

\* From<Error> for String.
From_Error_for_String(h, id) == fmt(h, id)

\* Variant: a Status error describes itself by the name of its status.
description_status_name(self) ==
    LET k == self.kind IN
    CASE k.tag = "Void" -> "OpenCL Error"
      [] k.tag = "Conversion" -> k.desc
      [] k.tag = "Nul" -> k.err.description
      [] k.tag = "Io" -> k.err.description
      [] k.tag = "FromUtf8Error" -> k.err.description
      [] k.tag = "IntoStringError" -> k.err.description
      [] k.tag = "Status" -> k.status_string
      [] k.tag = "String" -> k.desc
      [] k.tag = "UnspecifiedDimensions" ->
            "Cannot convert to a valid set of dimensions. Please specify some dimensions."
      [] k.tag = "EmptyInfoResult" -> k.err.description
      [] k.tag = "VersionLow" -> "OpenCL version too low to use this feature."
      [] k.tag = "Other" -> k.err.description

description(self) ==
    LET k == self.kind IN
    CASE k.tag = "Void" -> "OpenCL Error"
      [] k.tag = "Conversion" -> k.desc
      [] k.tag = "Nul" -> k.err.description
      [] k.tag = "Io" -> k.err.description
      [] k.tag = "FromUtf8Error" -> k.err.description
      [] k.tag = "IntoStringError" -> k.err.description
      [] k.tag = "Status" -> k.desc
      [] k.tag = "String" -> k.desc
      [] k.tag = "UnspecifiedDimensions" ->
            "Cannot convert to a valid set of dimensions. Please specify some dimensions."
      [] k.tag = "EmptyInfoResult" -> k.err.description
      [] k.tag = "VersionLow" -> "OpenCL version too low to use this feature."
      [] k.tag = "Other" -> k.err.description

\* Variant: the thunk is run before the result is looked at.
chain_err_eager(h, self, cb) ==
    IF self.tag = "Err"
    THEN LET e == Into(h, cb) IN
         IF e.cause # 0
         THEN [panic |-> TRUE, value |-> "assertion failed: err.cause.is_none()",
               thunk_calls |-> 1]
         ELSE [panic |-> FALSE, value |-> Err(Error(e.kind, self.err)),
               thunk_calls |-> 1]
    ELSE [panic |-> FALSE, value |-> self, thunk_calls |-> 1]

\* Result::map_err driving the chain_err closure; `cb` is what the thunk
\* returns, `thunk_calls` how often it ran.
chain_err(h, self, cb) ==
    IF self.tag = "Err"
    THEN LET e == Into(h, cb) IN
         IF e.cause # 0
         THEN [panic |-> TRUE, value |-> "assertion failed: err.cause.is_none()",
               thunk_calls |-> 1]
         ELSE [panic |-> FALSE, value |-> Err(Error(e.kind, self.err)),
               thunk_calls |-> 1]
    ELSE [panic |-> FALSE, value |-> self, thunk_calls |-> 0]

(* ------------------------------ the heap ------------------------------ *)

EmptyHeap(n) == [i \in 1..n |-> Free]

\* The ids of the chain that starts at id, head first.
RECURSIVE ChainFrom(_, _, _)
ChainFrom(h, id, fuel) ==
    IF id = 0 \/ fuel = 0 THEN <<>>
    ELSE <<id>> \o ChainFrom(h, cause(h[id]), fuel - 1)

ChainIds(h, id) == ChainFrom(h, id, Cardinality(DOMAIN h))

Owns(h, id) == {ChainIds(h, id)[i] : i \in 1..Len(ChainIds(h, id))}

\* Dropping Errors releases their boxes, the whole chain of each.
Release(h, ids) ==
    LET gone == UNION {Owns(h, id) : id \in ids}
    IN  [i \in DOMAIN h |-> IF i \in gone THEN Free ELSE h[i]]

HasRoom(h) == Live(h) # DOMAIN h

\* The slot a newly built Error takes; the slot of an Error that was moved
\* into the call is free again.
NewId(h) == CHOOSE i \in DOMAIN h \ Live(h) : \A j \in DOMAIN h \ Live(h) : i <= j

\* The Errors an argument moved into a call takes with it.
MovedIds(v) == IF v.ty = "Error" THEN {v.id} ELSE {}

Observation(op, arg, ret, panic, thunk_calls, resolved) ==
    [op |-> op, arg |-> arg, ret |-> ret, panic |-> panic,
     thunk_calls |-> thunk_calls, resolved |-> resolved]

NoCall == [fn |-> "none"]

Running == ~last.panic

(* ------------------------------ actions ------------------------------- *)

\* e = v.into(): a foreign value is lifted to an Error the caller holds.
Lift(v) ==
    /\ Running
    /\ HasRoom(heap)
    /\ LET n == NewId(heap) IN
        /\ heap' = [heap EXCEPT ![n] = Into(heap, v)]
        /\ owned' = owned \cup {n}
        /\ last' = Observation("from", v, n, FALSE, 0, 0)

\* Variant: the caller keeps `self` although the new Error has it as cause.
Chain_aliasing(self, head) ==
    /\ Running
    /\ self \in owned
    /\ MovedIds(head) \subseteq owned \ {self}
    /\ LET r == chain(self, Into(heap, head))
           rest == Release(heap, MovedIds(head))
           n == NewId(rest)
       IN  /\ r.panic \/ HasRoom(rest)
           /\ IF r.panic
              THEN /\ heap' = Release(heap, {self} \cup MovedIds(head))
                   /\ owned' = owned \ ({self} \cup MovedIds(head))
                   /\ last' = Observation("chain", <<self, head>>, r.value, TRUE, 0, 0)
              ELSE /\ heap' = [rest EXCEPT ![n] = r.value]
                   /\ owned' = (owned \ MovedIds(head)) \cup {n}
                   /\ last' = Observation("chain", <<self, head>>, n, FALSE, 0, 0)

\* e2 = self.chain(head)
Chain(self, head) ==
    /\ Running
    /\ self \in owned
    /\ MovedIds(head) \subseteq owned \ {self}
    /\ LET r == chain(self, Into(heap, head))
           rest == Release(heap, MovedIds(head))
           n == NewId(rest)
       IN  /\ r.panic \/ HasRoom(rest)
           /\ IF r.panic
              THEN /\ heap' = Release(heap, {self} \cup MovedIds(head))
                   /\ owned' = owned \ ({self} \cup MovedIds(head))
                   /\ last' = Observation("chain", <<self, head>>, r.value, TRUE, 0, 0)
              ELSE /\ heap' = [rest EXCEPT ![n] = r.value]
                   /\ owned' = (owned \ ({self} \cup MovedIds(head))) \cup {n}
                   /\ last' = Observation("chain", <<self, head>>, n, FALSE, 0, 0)

\* res.chain_err(|| cb): res is Ok(value) or Err(an Error the caller holds).
ChainErr(res, cb) ==
    /\ Running
    /\ res.tag = "Err" => res.err \in owned
    /\ MovedIds(cb) \subseteq owned \ (IF res.tag = "Err" THEN {res.err} ELSE {})
    /\ LET r == chain_err(heap, res, cb)
           rest == Release(heap, MovedIds(cb))
           n == NewId(rest)
           taken == MovedIds(cb) \cup (IF res.tag = "Err" THEN {res.err} ELSE {})
       IN  IF r.panic
           THEN /\ heap' = Release(heap, taken)
                /\ owned' = owned \ taken
                /\ last' = Observation("chain_err", <<res, cb>>, r.value, TRUE,
                                       r.thunk_calls, 0)
           ELSE IF r.value.tag = "Err"
           THEN /\ HasRoom(rest)
                /\ heap' = [rest EXCEPT ![n] = r.value.err]
                /\ owned' = (owned \ taken) \cup {n}
                /\ last' = Observation("chain_err", <<res, cb>>, Err(n), FALSE,
                                       r.thunk_calls, 0)
           ELSE /\ heap' = Release(heap, taken)
                /\ owned' = owned \ taken
                /\ last' = Observation("chain_err", <<res, cb>>, r.value, FALSE,
                                       r.thunk_calls, 0)

\* e.prepend(txt)
Prepend(self, txt) ==
    /\ Running
    /\ self \in owned
    /\ heap[self].kind.tag = "String" => Len(txt) + Len(heap[self].kind.desc) <= MaxTextLen
    /\ LET r == prepend(heap[self], txt) IN
       IF r.panic
       THEN /\ UNCHANGED <<heap, owned>>
            /\ last' = Observation("prepend", <<self, txt>>, r.value, TRUE, 0, 0)
       ELSE /\ heap' = [heap EXCEPT ![self] = r.value]
            /\ UNCHANGED owned
            /\ last' = Observation("prepend", <<self, txt>>, self, FALSE, 0, 0)

\* drop(e)
Drop(self) ==
    /\ Running
    /\ self \in owned
    /\ heap' = Release(heap, {self})
    /\ owned' = owned \ {self}
    /\ last' = Observation("drop", self, 0, FALSE, 0, 0)

(* --------------------------- specification ---------------------------- *)

\* What the chaining calls are given as heads in Spec.
Heads == {Unit, [ty |-> "&str", text |-> "boom"]}

Init ==
    /\ heap = EmptyHeap(MaxNodes)
    /\ owned = {}
    /\ last = Observation("start", 0, 0, FALSE, 0, 0)
    /\ pending = NoCall

Next ==
    \/ \E v \in Heads : Lift(v) /\ UNCHANGED pending
    \/ \E self \in owned, head \in Heads \cup {Moved(id) : id \in owned} :
            Chain(self, head) /\ UNCHANGED pending
    \/ \E res \in {Ok(v) : v \in Values} \cup {Err(id) : id \in owned},
          cb \in Heads \cup {Moved(id) : id \in owned} :
            ChainErr(res, cb) /\ UNCHANGED pending
    \/ \E self \in owned, txt \in Prefixes : Prepend(self, txt) /\ UNCHANGED pending
    \/ \E self \in owned : Drop(self) /\ UNCHANGED pending

Spec == Init /\ [][Next]_vars

(* ------------------- the functions applied to inputs ------------------ *)

VersionPairs == {<<<<1, 1>>, <<1, 2>>>>, <<<<1, 2>>, <<2, 0>>>>}

\* Every kind an Error can carry, over the inputs above.
AllKinds ==
    {Into(<<>>, v).kind : v \in Foreign}
        \cup {unspecified_dimensions.kind}
        \cup {version_low(p[1], p[2]).kind : p \in VersionPairs}
        \cup {err_conversion(t).err.kind : t \in Texts}
        \cup {gen_status_error(c, n, i).value.kind :
                c \in {c \in Codes : from_i32(c) # None /\ c # CL_SUCCESS.code},
                n \in FnNames, i \in FnInfos}
        \cup {Other(b) : b \in BoxedErrors}

\* The cause chains of at most n Errors, as the kinds from head to root.
KindChains(n) == UNION {[1..k -> AllKinds] : k \in 1..n}

\* The heap that holds exactly the chain ks, its head at 1.
HeapOfChain(ks) ==
    [i \in 1..Len(ks) |-> Error(ks[i], IF i < Len(ks) THEN i + 1 ELSE 0)]

\* The kinds of the chain of id, head to root: the Error as a value.
KindsOf(h, id) == [i \in 1..Len(ChainIds(h, id)) |-> h[ChainIds(h, id)[i]].kind]

ConstructorCalls ==
    {[fn |-> "new", desc |-> t] : t \in Texts}
        \cup {[fn |-> "string", desc |-> t] : t \in Texts}
        \cup {[fn |-> "err", desc |-> t] : t \in Texts}
        \cup {[fn |-> "err_string", desc |-> t] : t \in Texts}
        \cup {[fn |-> "err_conversion", desc |-> t] : t \in Texts}
        \cup {[fn |-> "unspecified_dimensions"]}
        \cup {[fn |-> "version_low", detected |-> p[1], required |-> p[2]] :
                p \in VersionPairs}

FromCalls == {[fn |-> "from", arg |-> v] : v \in Foreign}

EvalCalls ==
    {[fn |-> "eval_errcode", errcode |-> c, result |-> v, fn_name |-> n, fn_info |-> i] :
        c \in Codes, v \in Values, n \in FnNames, i \in FnInfos}

\* An Error is at hand; the formatting calls take it.
Given == [fn |-> "given"]

\* Error::description(&self)
Description(self) ==
    /\ Running
    /\ self \in owned
    /\ last' = Observation("description", self, description(heap[self]), FALSE, 0, 0)
    /\ UNCHANGED <<heap, owned, pending>>

\* format!("{}", self) / format!("{:?}", self)
Display(self) ==
    /\ Running
    /\ self \in owned
    /\ last' = Observation("fmt", self, fmt(heap, self), FALSE, 0, 0)
    /\ UNCHANGED <<heap, owned, pending>>

\* String::from(self): the Error is consumed.
IntoString(self) ==
    /\ Running
    /\ self \in owned
    /\ last' = Observation("into_string", KindsOf(heap, self),
                           From_Error_for_String(heap, self), FALSE, 0, 0)
    /\ heap' = Release(heap, {self})
    /\ owned' = owned \ {self}
    /\ UNCHANGED pending

\* The pending lift is made.
From ==
    /\ pending.fn = "from"
    /\ Lift(pending.arg)
    /\ pending' = NoCall

\* The value a constructor call returns: an Error, or an Err holding one.
Constructed(c) ==
    CASE c.fn = "new" -> new(c.desc)
      [] c.fn = "string" -> string(c.desc)
      [] c.fn = "err" -> err(c.desc)
      [] c.fn = "err_string" -> err_string(c.desc)
      [] c.fn = "err_conversion" -> err_conversion(c.desc)
      [] c.fn = "unspecified_dimensions" -> unspecified_dimensions
      [] c.fn = "version_low" -> version_low(c.detected, c.required)

\* The pending constructor call is made.
Construct ==
    /\ Running
    /\ pending \in ConstructorCalls
    /\ HasRoom(heap)
    /\ LET r == Constructed(pending)
           n == NewId(heap)
           isResult == pending.fn \in {"err", "err_string", "err_conversion"}
       IN  /\ heap' = [heap EXCEPT ![n] = IF isResult THEN r.err ELSE r]
           /\ owned' = owned \cup {n}
           /\ last' = Observation(pending.fn, pending,
                                  IF isResult THEN Err(n) ELSE n, FALSE, 0, 0)
    /\ pending' = NoCall

\* The pending Error::eval_errcode call is made.
Evaluate ==
    /\ Running
    /\ pending \in EvalCalls
    /\ LET r == eval_errcode(pending.errcode, pending.result,
                             pending.fn_name, pending.fn_info)
           n == NewId(heap)
       IN  IF r.panic \/ r.value.tag = "Ok"
           THEN /\ UNCHANGED <<heap, owned>>
                /\ last' = Observation("eval_errcode", pending, r.value, r.panic,
                                       0, r.resolved)
           ELSE /\ HasRoom(heap)
                /\ heap' = [heap EXCEPT ![n] = r.value.err]
                /\ owned' = owned \cup {n}
                /\ last' = Observation("eval_errcode", pending, Err(n), FALSE,
                                       0, r.resolved)
    /\ pending' = NoCall

InitFn ==
    /\ last = Observation("start", 0, 0, FALSE, 0, 0)
    /\ \/ /\ pending = Given
          /\ \E ks \in KindChains(MaxDepth) : heap = HeapOfChain(ks)
          /\ owned = {1}
       \/ /\ pending \in FromCalls \cup ConstructorCalls \cup EvalCalls
          /\ heap = EmptyHeap(1)
          /\ owned = {}

NextFn ==
    \/ \E self \in owned : Description(self)
    \/ \E self \in owned : Display(self)
    \/ \E self \in owned : IntoString(self)
    \/ From
    \/ Construct
    \/ Evaluate

SpecFn == InitFn /\ [][NextFn]_vars

(* ------------------------------ properties ---------------------------- *)

\* C1: e2 = e1.chain(head), for a head whose lifted cause is none, returns:
\* e2 has head's kind, e2.cause() is e1, e1 keeps its kind and its whole
\* chain, and the chain of e2 is one node longer than the chain of e1.
ChainLaw ==
    [][(last'.op = "chain" /\ Into(heap, last'.arg[2]).cause = 0) =>
        LET e1 == last'.arg[1]
            e2 == last'.ret
        IN  /\ ~last'.panic
            /\ e2 \in owned'
            /\ kind(heap'[e2]) = Into(heap, last'.arg[2]).kind
            /\ cause(heap'[e2]) = e1
            /\ ChainIds(heap', e1) = ChainIds(heap, e1)
            /\ KindsOf(heap', e1) = KindsOf(heap, e1)
            /\ Len(ChainIds(heap', e2)) = Len(ChainIds(heap, e1)) + 1]_vars

ChainLawWitness ==
    /\ last.op = "chain"
    /\ ~last.panic
    /\ Len(ChainIds(heap, last.ret)) >= 3

\* C3: chain_err runs its thunk once on a failure and never on a success; a
\* success comes back unchanged, a failure comes back as a new Error with the
\* kind of the thunk's lifted value and the original Error as its cause.
ChainErrLazy ==
    [][last'.op = "chain_err" =>
        LET res == last'.arg[1]
            cb == last'.arg[2]
        IN  IF res.tag = "Ok"
            THEN /\ last'.thunk_calls = 0
                 /\ ~last'.panic
                 /\ last'.ret = res
            ELSE /\ last'.thunk_calls = 1
                 /\ ~last'.panic =>
                      /\ last'.ret.tag = "Err"
                      /\ last'.ret.err \in owned'
                      /\ kind(heap'[last'.ret.err]) = Into(heap, cb).kind
                      /\ cause(heap'[last'.ret.err]) = res.err
                      /\ KindsOf(heap', res.err) = KindsOf(heap, res.err)]_vars

ChainErrLazyWitness ==
    /\ last.op = "chain_err"
    /\ last.arg[1].tag = "Err"
    /\ ~last.panic
    /\ last.thunk_calls = 1
    /\ cause(heap[last.ret.err]) = last.arg[1].err

\* C4: chain with a head that already has a cause, and chain_err on a failure
\* with a thunk value that already has a cause, panic and build no Error.
NoReparenting ==
    [][/\ (last'.op = "chain" /\ Into(heap, last'.arg[2]).cause # 0) =>
            /\ last'.panic
            /\ Live(heap') \subseteq Live(heap)
            /\ owned' \subseteq owned
       /\ (/\ last'.op = "chain_err"
           /\ last'.arg[1].tag = "Err"
           /\ Into(heap, last'.arg[2]).cause # 0) =>
            /\ last'.panic
            /\ Live(heap') \subseteq Live(heap)
            /\ owned' \subseteq owned]_vars

NoReparentingWitness ==
    /\ last.op = "chain"
    /\ last.panic
    /\ last.arg[2].ty = "Error"

\* The Error an operation has built and returned, if any.
Built(l) ==
    IF l.panic THEN {}
    ELSE IF l.op \in {"chain", "from"} THEN {l.ret}
    ELSE IF l.op = "chain_err" /\ l.ret.tag = "Err" THEN {l.ret.err}
    ELSE {}

\* The Errors that exist both before and after a step.
Existing(h, hNext, l) == (Live(h) \cap Live(hNext)) \ Built(l)

Terminates(h, id) ==
    LET c == ChainFrom(h, id, Cardinality(DOMAIN h))
    IN  cause(h[c[Len(c)]]) = 0

ChainsAcyclic ==
    /\ \A id \in Live(heap) :
        /\ cause(heap[id]) # 0 => cause(heap[id]) \in Live(heap)
        /\ Terminates(heap, id)
        /\ Cardinality(Owns(heap, id)) = Len(ChainIds(heap, id))
    /\ \A a, b \in Live(heap) :
        (a # b /\ cause(heap[a]) # 0) => cause(heap[a]) # cause(heap[b])
    /\ \A id \in owned : id \in Live(heap) /\ \A a \in Live(heap) : cause(heap[a]) # id

ChainsAcyclicWitness ==
    /\ last.op \in {"chain", "chain_err"}
    /\ ~last.panic
    /\ \E id \in owned : Len(ChainIds(heap, id)) >= 3

\* C2: eval_errcode returns Ok(value) when the code is CL_SUCCESS; for any
\* other code with a named status it returns Err of a Status error whose
\* status() is that status, with the given fn_name and fn_info and no cause.
EvalErrcodeLaw ==
    last.op = "eval_errcode" =>
        LET c == last.arg IN
        /\ c.errcode = CL_SUCCESS.code =>
            ~last.panic /\ last.ret = Ok(c.result)
        /\ (c.errcode # CL_SUCCESS.code /\ from_i32(c.errcode) # None) =>
            /\ ~last.panic
            /\ last.ret.tag = "Err"
            /\ last.ret.err \in owned
            /\ LET e == heap[last.ret.err] IN
                /\ kind(e).tag = "Status"
                /\ status(e) = Some(from_i32(c.errcode).value)
                /\ status(e).value.code = c.errcode
                /\ kind(e).fn_name = c.fn_name
                /\ kind(e).fn_info = c.fn_info
                /\ cause(e) = 0

EvalErrcodeWitness ==
    /\ last.op = "eval_errcode"
    /\ last.arg.errcode = -30
    /\ last.arg.fn_info = "main_kernel"
    /\ last.ret.tag = "Err"

\* What Display prints for an Error of kind k that has no cause.
DisplayAlone(k) == fmt(HeapOfChain(<<k>>), 1)

\* C6 as stated: description() is the Display text of the node alone, for
\* every kind.
DescriptionIsOwnDisplay ==
    last.op = "description" => last.ret = DisplayAlone(kind(heap[last.arg]))

\* C6 amended: description() is the Display text of the node alone for every
\* kind but VersionLow, whose description is the fixed text without the
\* detected and required versions.
DescriptionLaw ==
    last.op = "description" =>
        LET k == kind(heap[last.arg]) IN
        IF k.tag = "VersionLow"
        THEN /\ last.ret = "OpenCL version too low to use this feature."
             /\ last.ret # DisplayAlone(k)
        ELSE last.ret = DisplayAlone(k)

DescriptionLawWitness ==
    /\ last.op = "description"
    /\ kind(heap[last.arg]).tag = "Status"
    /\ cause(heap[last.arg]) # 0

\* The texts msgs joined by ": ", built from the left.
JoinMsgs(msgs) ==
    LET F[i \in 1..Len(msgs)] ==
            IF i = 1 THEN msgs[1] ELSE F[i - 1] \o ": " \o msgs[i]
    IN  F[Len(msgs)]

\* The own messages of the chain of kinds ks, head first.
Msgs(ks) == [i \in 1..Len(ks) |-> DisplayAlone(ks[i])]

\* C7: Display prints the own messages of the chain from head to root, each
\* once, joined by ": "; String::from(error) gives the same text.
DisplayLaw ==
    /\ last.op = "fmt" =>
        /\ last.ret = JoinMsgs(Msgs(KindsOf(heap, last.arg)))
        /\ KindsOf(heap, last.arg) = <<String("context"), String("boom")>> =>
                last.ret = "context: boom"
        /\ cause(heap[last.arg]) = 0 => last.ret = write_msg(heap[last.arg])
    /\ last.op = "into_string" =>
        /\ last.ret = JoinMsgs(Msgs(last.arg))
        /\ last.arg = <<String("context"), String("boom")>> =>
                last.ret = "context: boom"

DisplayLawWitness ==
    /\ last.op = "fmt"
    /\ Len(KindsOf(heap, last.arg)) >= 3
    /\ kind(heap[last.arg]).tag = "String"

\* C8: every From lift gives the kind of its source type, carrying the lifted
\* value, and no cause.
LiftLaw ==
    last.op = "from" =>
        LET v == last.arg
            e == heap[last.ret]
        IN  /\ last.ret \in owned
            /\ cause(e) = 0
            /\ v.ty = "()" => kind(e) = Void
            /\ v.ty \in {"String", "&str"} => kind(e) = String(v.text)
            /\ v.ty = "NulError" => kind(e) = Nul(v)
            /\ v.ty = "io::Error" => kind(e) = Io(v)
            /\ v.ty = "FromUtf8Error" => kind(e) = FromUtf8Error(v)
            /\ v.ty = "IntoStringError" => kind(e) = IntoStringError(v)
            /\ v.ty = "EmptyInfoResult" => kind(e) = EmptyInfoResult(v)

LiftLawWitness ==
    /\ last.op = "from"
    /\ last.arg.ty = "NulError"
    /\ last.ret \in owned

\* C10: eval_errcode panics on a code that is not CL_SUCCESS and has no named
\* status, with the integer in the message, and returns no failure for it;
\* with CL_SUCCESS the status is never resolved.
UnknownCodeAborts ==
    last.op = "eval_errcode" =>
        LET c == last.arg IN
        /\ (c.errcode # CL_SUCCESS.code /\ from_i32(c.errcode) = None) =>
            /\ last.panic
            /\ \E pre \in {"ocl_core::Error::err_status: Invalid error code: '"},
                  suf \in {"'. Aborting."} :
                    last.ret = pre \o IntToString(c.errcode) \o suf
            /\ Live(heap) = {}
            /\ owned = {}
        /\ c.errcode = CL_SUCCESS.code => last.resolved = 0 /\ ~last.panic

UnknownCodeAbortsWitness ==
    /\ last.op = "eval_errcode"
    /\ last.arg.errcode = -20
    /\ last.panic

====
